---- MODULE Spec2Model ----
(***************************************************************************)
(* promptCompiler: the compile view (PromptCompiler.vue), the prompt store *)
(* (stores/promptStore.ts) and the axios client (services/api.ts) of the   *)
(* frontend, together with the compilation pipeline and the template usage *)
(* counters of the backend as the specification describes them.            *)
(***************************************************************************)
EXTENDS Integers, Sequences, FiniteSets, TLC

(***************************************************************************)
(* Bounds of the model.                                                    *)
(***************************************************************************)
\* compile calls in flight plus delayed progress resets not yet fired
MaxTimers == 2

(***************************************************************************)
(* JavaScript values.  An optional value (a field that may be undefined or *)
(* null, a response body that may be empty) is a set with no element or    *)
(* with one; `a || b` on it is OrElse.                                     *)
(***************************************************************************)
Null == "null"
None == {}
Some(x) == {x}
Truthy(opt) == opt # {}
Unwrap(opt) == CHOOSE x \in opt : TRUE
OrElse(opt, d) == IF Truthy(opt) THEN Unwrap(opt) ELSE d

(***************************************************************************)
(* types/index.ts                                                          *)
(***************************************************************************)
LOW == "low"
MEDIUM == "medium"
HIGH == "high"
OptimizationLevel == {LOW, MEDIUM, HIGH}

\* user_input values the view can hold; "" is the empty textarea
UserInputs == {"", "write an assistant"}

CompileRequest ==
    [user_input : UserInputs,
     optimization_level : OptimizationLevel,
     auto_evaluate : BOOLEAN]

\* CompiledPrompt and QualityMetrics objects a response can carry, by identity
CompiledPrompt == {"prompt_v1", "prompt_v2"}
QualityMetrics == {"metrics_a"}
SuggestionLists == {<< >>, <<"add constraints">>}

\* the data of a 2xx answer to POST /compile: every field may be missing
CompileResponse ==
    [compiled_prompt : {None} \cup {Some(p) : p \in CompiledPrompt},
     metrics : {None} \cup {Some(m) : m \in QualityMetrics},
     suggestions : {None} \cup {Some(s) : s \in SuggestionLists}]

(***************************************************************************)
(* stores/promptStore.ts: enum CompileProgress                             *)
(***************************************************************************)
IDLE == "idle"
STARTING == "starting"
EXTRACTING_INTENT == "extracting_intent"
GENERATING_PROMPT == "generating_prompt"
OPTIMIZING == "optimizing"
SELF_CHECKING == "self_checking"
EVALUATING == "evaluating"
COMPLETED == "completed"
ERROR == "error"
CompileProgress ==
    {IDLE, STARTING, EXTRACTING_INTENT, GENERATING_PROMPT, OPTIMIZING,
     SELF_CHECKING, EVALUATING, COMPLETED, ERROR}

(***************************************************************************)
(* services/api.ts: the axios client.  A raw outcome of apiClient.post is  *)
(* what axios hands to the response interceptor: a 2xx response (status    *)
(* "fulfilled", with its data) or an error (status "rejected", with the    *)
(* error's code, message, response and request).                           *)
(***************************************************************************)
\* a client built without a timeout: axios takes 0 to mean "never time out"
timeoutOff == 0

\* axios.create({timeout}), in milliseconds
timeout == 120000

TIMEOUT_MESSAGE == "timeout of 120000ms exceeded"
MessageIncludesTimeout(message) == message \in {TIMEOUT_MESSAGE}

RawFulfilled ==
    {[status |-> "fulfilled", data |-> d, code |-> "", message |-> "",
      response |-> None, request |-> FALSE] :
        d \in {None} \cup {Some(b) : b \in CompileResponse}}

RawError(code, message, response, request) ==
    [status |-> "rejected", data |-> None, code |-> code, message |-> message,
     response |-> response, request |-> request]

\* the error axios raises when no answer came within `timeout`
RawTimeout == RawError("ECONNABORTED", TIMEOUT_MESSAGE, None, TRUE)

\* the body of an error answer of the server: FastAPI's detail, or error_message
ErrorData ==
    [detail : {None, Some("intent extraction failed")},
     error_message : {None, Some("compile failed on server")}]

RawServerErrors ==
    {RawError("ERR_BAD_RESPONSE", "Request failed with status code 500",
              Some([status |-> 500, data |-> d]), TRUE) : d \in ErrorData}

\* the request was sent and no response was received
RawNetworkError == RawError("ERR_NETWORK", "Network Error", None, TRUE)

\* the request could not be set up: with a message, or without one
RawSetupErrors ==
    {RawError("", m, None, FALSE) : m \in {"", "invalid url"}}

\* what the server and the network can answer to a request
RawAnswers ==
    RawFulfilled \cup RawServerErrors \cup {RawNetworkError} \cup RawSetupErrors

\* a settled promise: resolved with a value, or rejected with {status, message}
Resolve(data) == [resolved |-> TRUE, value |-> data, status |-> 200, message |-> ""]
Reject(status, message) ==
    [resolved |-> FALSE, value |-> None, status |-> status, message |-> message]

MSG_TIMEOUT == "request timed out, retry later"
MSG_REQUEST_FAILED == "request failed"
MSG_NETWORK == "network error, check your connection"
MSG_UNKNOWN == "unknown error"

\* apiClient.interceptors.response.use(onFulfilled, onRejected)
ResponseInterceptor(raw) ==
    IF raw.status = "fulfilled" THEN Resolve(raw.data)
    ELSE IF raw.code = "ECONNABORTED" \/ MessageIncludesTimeout(raw.message)
         THEN Reject(0, MSG_TIMEOUT)
    ELSE IF Truthy(raw.response)
         THEN Reject(Unwrap(raw.response).status,
                     OrElse(Unwrap(raw.response).data.detail,
                            OrElse(Unwrap(raw.response).data.error_message,
                                   MSG_REQUEST_FAILED)))
    ELSE IF raw.request THEN Reject(0, MSG_NETWORK)
    ELSE Reject(-1, IF raw.message # "" THEN raw.message ELSE MSG_UNKNOWN)

(***************************************************************************)
(* State.                                                                  *)
(***************************************************************************)
VARIABLES
    \* stores/promptStore.ts: the refs of the prompt store
    loading, progress, error, currentPrompt, currentMetrics, suggestions,
    \* the compile() calls suspended at `await promptService.compile(request)`,
    \* oldest first: each holds its request, whose setInterval timer runs, and
    \* `stale`, the delayed resets that were pending when the call started
    inflight,
    \* the setTimeout callbacks of finished compile() calls that have not fired
    resetTimers,
    \* the latest step of the compile button, of handleCompile and of
    \* compile(): which it was (op), the request of the call, what compile()
    \* returned (no value for null), and progress and currentMetrics before it
    last

storeVars == <<loading, progress, error, currentPrompt, currentMetrics, suggestions>>
frontVars == <<loading, progress, error, currentPrompt, currentMetrics, suggestions,
               inflight, resetTimers, last>>

\* delays of the two timers of compile(), in milliseconds
PROGRESS_INTERVAL == 3000
RESET_DELAY == 2000

MSG_BAD_FORMAT == "response format is not correct"
MSG_COMPILE_FAILED == "compile failed"

Last(op, request, returned) ==
    [op |-> op, request |-> request, returned |-> returned,
     progressBefore |-> progress, metricsBefore |-> currentMetrics]

FrontInit ==
    /\ loading = FALSE
    /\ progress = IDLE
    /\ error = Null
    /\ currentPrompt = Null
    /\ currentMetrics = Null
    /\ suggestions = << >>
    /\ inflight = << >>
    /\ resetTimers = 0
    /\ last = [op |-> "none", request |-> None, returned |-> None,
               progressBefore |-> IDLE, metricsBefore |-> Null]

RemoveAt(seq, i) == SubSeq(seq, 1, i - 1) \o SubSeq(seq, i + 1, Len(seq))

(***************************************************************************)
(* stores/promptStore.ts: compile(request), up to its await.               *)
(***************************************************************************)
compile(request) ==
    /\ Len(inflight) + resetTimers < MaxTimers
    /\ loading' = TRUE
    /\ error' = Null
    /\ progress' = STARTING
    /\ inflight' = Append(inflight, [request |-> request, stale |-> resetTimers])
    /\ last' = Last("compile", Some(request), None)
    /\ UNCHANGED <<currentPrompt, currentMetrics, suggestions, resetTimers>>

\* the callback without the test of optimization_level
progressIntervalAnyLevel(p, request) ==
    IF p = STARTING THEN EXTRACTING_INTENT
    ELSE IF p = EXTRACTING_INTENT THEN GENERATING_PROMPT
    ELSE IF p = GENERATING_PROMPT THEN OPTIMIZING
    ELSE IF p = OPTIMIZING THEN SELF_CHECKING
    ELSE IF p = SELF_CHECKING /\ request.auto_evaluate THEN EVALUATING
    ELSE p

\* the callback without the test of auto_evaluate
progressIntervalAlwaysEvaluates(p, request) ==
    IF p = STARTING THEN EXTRACTING_INTENT
    ELSE IF p = EXTRACTING_INTENT THEN GENERATING_PROMPT
    ELSE IF p = GENERATING_PROMPT
         THEN (IF request.optimization_level # LOW THEN OPTIMIZING ELSE SELF_CHECKING)
    ELSE IF p = OPTIMIZING THEN SELF_CHECKING
    ELSE IF p = SELF_CHECKING THEN EVALUATING
    ELSE p

\* the callback of setInterval: the next value of progress
progressInterval(p, request) ==
    IF p = STARTING THEN EXTRACTING_INTENT
    ELSE IF p = EXTRACTING_INTENT THEN GENERATING_PROMPT
    ELSE IF p = GENERATING_PROMPT
         THEN (IF request.optimization_level # LOW THEN OPTIMIZING ELSE SELF_CHECKING)
    ELSE IF p = OPTIMIZING THEN SELF_CHECKING
    ELSE IF p = SELF_CHECKING /\ request.auto_evaluate THEN EVALUATING
    ELSE p

\* A timer fires no earlier than one that is due before it.  The reset of a
\* finished call is due RESET_DELAY after the call ended, the first tick of
\* a call PROGRESS_INTERVAL after it started: the resets that were pending
\* when a call started fire before its first tick.
TimerDue(call) == RESET_DELAY < PROGRESS_INTERVAL => call.stale = 0

\* one tick of the interval timer of the i-th call in flight
ProgressTick(i) ==
    /\ i \in 1..Len(inflight)
    /\ TimerDue(inflight[i])
    /\ progress' = progressInterval(progress, inflight[i].request)
    /\ UNCHANGED <<loading, error, currentPrompt, currentMetrics, suggestions,
                   inflight, resetTimers, last>>

\* the message compile() stores for a caught error
errorMessage(err) ==
    IF err.message # "" THEN err.message ELSE MSG_COMPILE_FAILED

\* `response && response.compiled_prompt`
hasCompiledPrompt(response) ==
    Truthy(response) /\ Truthy(Unwrap(response).compiled_prompt)

\* compile() keeping the metrics it holds when the response brings none
compileSettledKeepsMetrics(i, outcome) ==
    /\ i \in 1..Len(inflight)
    /\ IF outcome.resolved /\ hasCompiledPrompt(outcome.value)
       THEN /\ currentPrompt' = Unwrap(Unwrap(outcome.value).compiled_prompt)
            /\ currentMetrics' = OrElse(Unwrap(outcome.value).metrics, currentMetrics)
            /\ suggestions' = OrElse(Unwrap(outcome.value).suggestions, << >>)
            /\ progress' = COMPLETED
            /\ error' = error
            /\ last' = Last("compile:response", Some(inflight[i].request), outcome.value)
       ELSE /\ progress' = ERROR
            /\ error' = errorMessage(IF outcome.resolved
                                     THEN Reject(-1, MSG_BAD_FORMAT) ELSE outcome)
            /\ last' = Last("compile:null", Some(inflight[i].request), None)
            /\ UNCHANGED <<currentPrompt, currentMetrics, suggestions>>
    /\ loading' = FALSE
    /\ resetTimers' = resetTimers + 1
    /\ inflight' = RemoveAt(inflight, i)

\* compile() resetting the store when the request fails
compileSettledClearsOnFailure(i, outcome) ==
    /\ i \in 1..Len(inflight)
    /\ IF outcome.resolved /\ hasCompiledPrompt(outcome.value)
       THEN /\ currentPrompt' = Unwrap(Unwrap(outcome.value).compiled_prompt)
            /\ currentMetrics' = OrElse(Unwrap(outcome.value).metrics, Null)
            /\ suggestions' = OrElse(Unwrap(outcome.value).suggestions, << >>)
            /\ progress' = COMPLETED
            /\ error' = error
            /\ last' = Last("compile:response", Some(inflight[i].request), outcome.value)
       ELSE /\ progress' = ERROR
            /\ error' = errorMessage(IF outcome.resolved
                                     THEN Reject(-1, MSG_BAD_FORMAT) ELSE outcome)
            /\ last' = Last("compile:null", Some(inflight[i].request), None)
            /\ currentPrompt' = Null
            /\ currentMetrics' = Null
            /\ suggestions' = << >>
    /\ loading' = FALSE
    /\ resetTimers' = resetTimers + 1
    /\ inflight' = RemoveAt(inflight, i)

\* compile(request) from the settling of `await promptService.compile(request)`
\* to its end: the try block, the catch block and the finally block
compileSettled(i, outcome) ==
    /\ i \in 1..Len(inflight)
    /\ IF outcome.resolved /\ hasCompiledPrompt(outcome.value)
       THEN /\ currentPrompt' = Unwrap(Unwrap(outcome.value).compiled_prompt)
            /\ currentMetrics' = OrElse(Unwrap(outcome.value).metrics, Null)
            /\ suggestions' = OrElse(Unwrap(outcome.value).suggestions, << >>)
            /\ progress' = COMPLETED
            /\ error' = error
            /\ last' = Last("compile:response", Some(inflight[i].request), outcome.value)
       ELSE /\ progress' = ERROR
            /\ error' = errorMessage(IF outcome.resolved
                                     THEN Reject(-1, MSG_BAD_FORMAT) ELSE outcome)
            /\ last' = Last("compile:null", Some(inflight[i].request), None)
            /\ UNCHANGED <<currentPrompt, currentMetrics, suggestions>>
    /\ loading' = FALSE
    /\ resetTimers' = resetTimers + 1
    /\ inflight' = RemoveAt(inflight, i)

\* a callback that resets progress whatever it is
ResetFiresAlways ==
    /\ resetTimers > 0
    /\ resetTimers' = resetTimers - 1
    /\ progress' = IDLE
    /\ inflight' = [k \in 1..Len(inflight) |->
                      [inflight[k] EXCEPT !.stale = IF @ > 0 THEN @ - 1 ELSE 0]]
    /\ UNCHANGED <<loading, error, currentPrompt, currentMetrics, suggestions, last>>

\* the callback of the setTimeout of the finally block
ResetFires ==
    /\ resetTimers > 0
    /\ resetTimers' = resetTimers - 1
    /\ progress' = IF progress # ERROR THEN IDLE ELSE progress
    /\ inflight' = [k \in 1..Len(inflight) |->
                      [inflight[k] EXCEPT !.stale = IF @ > 0 THEN @ - 1 ELSE 0]]
    /\ UNCHANGED <<loading, error, currentPrompt, currentMetrics, suggestions, last>>

(***************************************************************************)
(* services/promptService.ts and the network: the request of a call in     *)
(* flight is answered by the server or the network, or axios gives up      *)
(* after `timeout`.                                                        *)
(***************************************************************************)
Answer(i) ==
    \E raw \in RawAnswers : compileSettled(i, ResponseInterceptor(raw))

ClientTimeout(i) ==
    /\ timeout > 0
    /\ compileSettled(i, ResponseInterceptor(RawTimeout))

(***************************************************************************)
(* views/PromptCompiler.vue                                                *)
(***************************************************************************)
\* a button that stays enabled while loading
compileDisabledWhenEmpty(userInput) == userInput = ""

\* :disabled="!userInput || loading" of the compile button
compileDisabled(userInput) == userInput = "" \/ loading

\* the width of the progress bar: progressMap[promptStore.progress] || 0
progressPercentage(p) ==
    CASE p = IDLE -> 0
      [] p = STARTING -> 10
      [] p = EXTRACTING_INTENT -> 25
      [] p = GENERATING_PROMPT -> 40
      [] p = OPTIMIZING -> 60
      [] p = SELF_CHECKING -> 80
      [] p = EVALUATING -> 90
      [] p = COMPLETED -> 100
      [] p = ERROR -> 0
      [] OTHER -> 0

handleCompile(userInput, optimizationLevel, autoEvaluate) ==
    IF userInput = ""
    THEN /\ last' = Last("handleCompile:return", None, None)
         /\ UNCHANGED <<loading, progress, error, currentPrompt, currentMetrics,
                        suggestions, inflight, resetTimers>>
    ELSE compile([user_input |-> userInput,
                  optimization_level |-> optimizationLevel,
                  auto_evaluate |-> autoEvaluate])

\* a button and a handler that let an empty input through
pressCompileUnchecked(userInput, optimizationLevel, autoEvaluate) ==
    /\ ~loading
    /\ compile([user_input |-> userInput,
                optimization_level |-> optimizationLevel,
                auto_evaluate |-> autoEvaluate])

\* The user presses the compile button with some input and options in the
\* form.  A disabled button delivers no click: nothing runs (`last` notes the
\* press made with an empty input).  Otherwise the click runs handleCompile.
pressCompile(userInput, optimizationLevel, autoEvaluate) ==
    IF compileDisabled(userInput)
    THEN /\ last' = IF userInput = "" THEN Last("click:disabled", None, None)
                    ELSE last
         /\ UNCHANGED <<loading, progress, error, currentPrompt, currentMetrics,
                        suggestions, inflight, resetTimers>>
    ELSE handleCompile(userInput, optimizationLevel, autoEvaluate)

HandleCompile ==
    \E userInput \in UserInputs, optimizationLevel \in OptimizationLevel,
       autoEvaluate \in BOOLEAN :
        pressCompile(userInput, optimizationLevel, autoEvaluate)

(***************************************************************************)
(* stores/promptStore.ts: optimize(request) and reset().  No view calls    *)
(* them: they are operations of the store, open to any of its clients.     *)
(***************************************************************************)
\* optimize calls in flight
MaxOptimize == 2

VARIABLES
    \* the optimize() calls suspended at `await promptService.optimize(request)`,
    \* oldest first: each is its request
    optimizeCalls

OptimizeRequest ==
    [prompt_text : {"draft text"}, optimization_level : {HIGH}]

\* the data of a 2xx answer to POST /optimize
OptimizeResponse ==
    [original_prompt : {"draft text"}, optimized_prompt : {"optimized text"}]

\* what the server and the network can answer to POST /optimize
RawOptimizeAnswers ==
    {[status |-> "fulfilled", data |-> d, code |-> "", message |-> "",
      response |-> None, request |-> FALSE] :
        d \in {None} \cup {Some(b) : b \in OptimizeResponse}}
        \cup RawServerErrors \cup {RawNetworkError, RawTimeout} \cup RawSetupErrors

MSG_OPTIMIZE_FAILED == "optimize failed"

\* optimize(request), up to its await
optimize(request) ==
    /\ Len(optimizeCalls) < MaxOptimize
    /\ loading' = TRUE
    /\ error' = Null
    /\ optimizeCalls' = Append(optimizeCalls, request)
    /\ UNCHANGED <<progress, currentPrompt, currentMetrics, suggestions,
                   inflight, resetTimers, last>>

\* optimize() storing the optimized text as the current prompt
optimizeSettledStoresResult(i, outcome) ==
    /\ i \in 1..Len(optimizeCalls)
    /\ IF outcome.resolved
       THEN /\ error' = error
            /\ currentPrompt' = IF Truthy(outcome.value)
                                THEN Unwrap(outcome.value).optimized_prompt
                                ELSE currentPrompt
            /\ last' = Last("optimize:response", Some(optimizeCalls[i]), outcome.value)
       ELSE /\ error' = IF outcome.message # "" THEN outcome.message
                        ELSE MSG_OPTIMIZE_FAILED
            /\ currentPrompt' = currentPrompt
            /\ last' = Last("optimize:null", Some(optimizeCalls[i]), None)
    /\ loading' = FALSE
    /\ optimizeCalls' = RemoveAt(optimizeCalls, i)
    /\ UNCHANGED <<progress, currentMetrics, suggestions, inflight, resetTimers>>

\* optimize(request) from the settling of `await promptService.optimize(request)`
\* to its end: the try block, the catch block and the finally block
optimizeSettled(i, outcome) ==
    /\ i \in 1..Len(optimizeCalls)
    /\ IF outcome.resolved
       THEN /\ error' = error
            /\ last' = Last("optimize:response", Some(optimizeCalls[i]), outcome.value)
       ELSE /\ error' = IF outcome.message # "" THEN outcome.message
                        ELSE MSG_OPTIMIZE_FAILED
            /\ last' = Last("optimize:null", Some(optimizeCalls[i]), None)
    /\ loading' = FALSE
    /\ optimizeCalls' = RemoveAt(optimizeCalls, i)
    /\ UNCHANGED <<progress, currentPrompt, currentMetrics, suggestions,
                   inflight, resetTimers>>

\* the request of an optimize call in flight is answered, or times out
OptimizeAnswer(i) ==
    \E raw \in RawOptimizeAnswers : optimizeSettled(i, ResponseInterceptor(raw))

reset ==
    /\ currentPrompt' = Null
    /\ currentMetrics' = Null
    /\ suggestions' = << >>
    /\ error' = Null
    /\ UNCHANGED <<loading, progress, inflight, resetTimers, last, optimizeCalls>>

\* the compile button pressed on a form that is filled in and left as it is
CompileFilledForm == pressCompile("write an assistant", HIGH, TRUE)

(***************************************************************************)
(* The compilation pipeline of the backend, as the specification describes *)
(* it (sections 2, 4, 6 and 7): one request runs through the Intent        *)
(* Extractor, the Template Matcher, the Prompt Assembler, the Optimizer,   *)
(* the Quality Evaluator and the Version Recorder, one stage per step.     *)
(***************************************************************************)
VARIABLES
    \* the state of the pipeline's state machine
    stage,
    \* the working data of the request: see NewRun
    run,
    \* the answers of the generative-model service to this request, in order
    modelCalls,
    \* the outcome of every finished optimization pass, in order
    passes,
    \* what the pipeline returned
    result

pipeVars == <<stage, run, modelCalls, passes, result>>

RequiredSections == {"role", "objective", "constraints", "output_format"}

\* A prompt text, by what the self-check reads of it.
PromptText(id, sections, placeholders_intact, within_length) ==
    [id |-> id, sections |-> sections,
     placeholders_intact |-> placeholders_intact, within_length |-> within_length]

NoText == PromptText("none", {}, FALSE, FALSE)

\* the Assembler's render of the draft: every required section, in order
DraftRender == PromptText("draft", RequiredSections, TRUE, TRUE)

\* the rewrites the generative-model service may return
Rewrites ==
    {PromptText("rewrite_a", RequiredSections, TRUE, TRUE),
     PromptText("rewrite_b", RequiredSections, TRUE, TRUE),
     PromptText("rewrite_without_constraints",
                RequiredSections \ {"constraints"}, TRUE, TRUE),
     PromptText("rewrite_broken_placeholder", RequiredSections, FALSE, TRUE),
     PromptText("rewrite_too_long", RequiredSections, TRUE, FALSE)}

\* complete(promptText, directives) -> text | failure(kind)
FailureKinds == {"timeout", "rate_limited", "malformed"}
Completion(kind, text) == [kind |-> kind, text |-> text]
Completions ==
    {Completion("text", t) : t \in Rewrites}
        \cup {Completion(k, NoText) : k \in FailureKinds}

\* the self-check of a candidate: all required sections present, no
\* placeholder corrupted, length within bounds
SelfCheck(text) ==
    /\ text.sections = RequiredSections
    /\ text.placeholders_intact
    /\ text.within_length

\* the number of optimization passes of a level (for high: at most)
PassCount(level) ==
    CASE level = LOW -> 0
      [] level = MEDIUM -> 1
      [] level = HIGH -> 2

TemplateIds == {"t1", "t2"}

NewRun(request) ==
    [request |-> request,
     template |-> None,        \* the matched template, none for the default one
     draft |-> NoText,         \* the Assembler's render
     prompt |-> NoText,        \* full_prompt, as the passes rewrite it
     optimized |-> FALSE,
     warning |-> FALSE,        \* a model-service failure was met
     pass |-> 0,               \* the pass that runs, 1 or 2
     attempt |-> 0,            \* the call of that pass, 1 or 2 (the retry)
     candidate |-> NoText,     \* the rewrite that awaits its self-check
     metrics |-> None,
     persisted |-> FALSE,
     succeeded |-> {}]         \* the stages that succeeded

NoResult ==
    [error |-> "", compiled_prompt |-> None, metrics |-> None,
     warning |-> FALSE, persisted |-> FALSE, succeeded |-> {}]

PipeInit ==
    /\ stage = "idle"
    /\ run = NewRun([user_input |-> "", optimization_level |-> LOW,
                     auto_evaluate |-> FALSE])
    /\ modelCalls = << >>
    /\ passes = << >>
    /\ result = NoResult

\* a compile request arrives: an empty input is an InputError, before any work
Submit ==
    /\ stage = "idle"
    /\ \E request \in CompileRequest :
          /\ run' = NewRun(request)
          /\ IF request.user_input = ""
             THEN /\ stage' = "failed"
                  /\ result' = [NoResult EXCEPT !.error = "InputError"]
             ELSE /\ stage' = "extracting"
                  /\ result' = result
    /\ UNCHANGED <<modelCalls, passes>>

\* Intent Extractor: a pure function of the input, it cannot fail
ExtractIntent ==
    /\ stage = "extracting"
    /\ stage' = "matching"
    /\ run' = [run EXCEPT !.succeeded = @ \cup {"extract"}]
    /\ UNCHANGED <<modelCalls, passes, result>>

\* Template Matcher: a template, or no match (MatchNotFound), on which the
\* Assembler synthesizes a default template
MatchTemplate ==
    /\ stage = "matching"
    /\ stage' = "assembling"
    /\ \E m \in {None} \cup {Some(t) : t \in TemplateIds} :
          run' = [run EXCEPT !.template = m,
                             !.succeeded = IF Truthy(m) THEN @ \cup {"match"} ELSE @]
    /\ UNCHANGED <<modelCalls, passes, result>>

AfterOptimizer == IF run.request.auto_evaluate THEN "evaluating" ELSE "recording"

\* Prompt Assembler: the draft; the Optimizer is skipped for level low
Assemble ==
    /\ stage = "assembling"
    /\ stage' = IF PassCount(run.request.optimization_level) = 0
                THEN AfterOptimizer ELSE "optimizing"
    /\ run' = [run EXCEPT !.draft = DraftRender, !.prompt = DraftRender,
                          !.succeeded = @ \cup {"assemble"},
                          !.pass = IF PassCount(run.request.optimization_level) = 0
                                   THEN 0 ELSE 1,
                          !.attempt = IF PassCount(run.request.optimization_level) = 0
                                      THEN 0 ELSE 1]
    /\ UNCHANGED <<modelCalls, passes, result>>

PassOutcome(tag, input, output, calls) ==
    [tag |-> tag, input |-> input, output |-> output, calls |-> calls]

\* The pass that runs ends with `tag`, leaving `output` as the prompt, with
\* a warning when a failure of the model service ended it.  At level high a
\* second pass may follow the first.
EndPass(tag, output, failure, another) ==
    /\ passes' = Append(passes, PassOutcome(tag, run.prompt, output, run.attempt))
    /\ stage' = IF another THEN "optimizing" ELSE AfterOptimizer
    /\ run' = [run EXCEPT !.prompt = output,
                          !.optimized = @ \/ tag \in {"Accepted", "Retried"},
                          !.warning = @ \/ failure,
                          !.candidate = NoText,
                          !.pass = IF another THEN @ + 1 ELSE @,
                          !.attempt = IF another THEN 1 ELSE @]

MayRunAnother == {FALSE} \cup {run.pass < PassCount(run.request.optimization_level)}

\* an Optimizer for which a failure of the model service is fatal
CallModelOrFail ==
    /\ stage = "optimizing"
    /\ \E c \in Completions :
          /\ modelCalls' = Append(modelCalls, c.kind)
          /\ IF c.kind = "text"
             THEN /\ stage' = "self_checking"
                  /\ run' = [run EXCEPT !.candidate = c.text]
                  /\ result' = result
             ELSE /\ stage' = "failed"
                  /\ run' = run
                  /\ result' = [NoResult EXCEPT !.error = "ModelServiceFailure"]
    /\ passes' = passes

\* Optimizer, step 1 and 2: the prompt goes to the generative-model service;
\* a rewrite comes back and awaits its self-check, or the call fails and the
\* pass keeps its input, with a warning
CallModel ==
    /\ stage = "optimizing"
    /\ \E c \in Completions :
          /\ modelCalls' = Append(modelCalls, c.kind)
          /\ IF c.kind = "text"
             THEN /\ stage' = "self_checking"
                  /\ run' = [run EXCEPT !.candidate = c.text]
                  /\ passes' = passes
             ELSE \E another \in MayRunAnother :
                      EndPass("Reverted", run.prompt, TRUE, another)
    /\ UNCHANGED result

\* a self-check step that accepts the retried candidate unchecked
SelfCheckStepTrustsRetry ==
    /\ stage = "self_checking"
    /\ IF SelfCheck(run.candidate) \/ run.attempt = 2
       THEN \E another \in MayRunAnother :
                EndPass(IF run.attempt = 1 THEN "Accepted" ELSE "Retried",
                        run.candidate, FALSE, another)
       ELSE /\ stage' = "optimizing"
            /\ run' = [run EXCEPT !.attempt = 2, !.candidate = NoText]
            /\ passes' = passes
    /\ UNCHANGED <<modelCalls, result>>

\* Optimizer, step 3: the self-check accepts the candidate, or discards it
\* and asks for one retry, or, the retry failing too, reverts the pass
SelfCheckStep ==
    /\ stage = "self_checking"
    /\ IF SelfCheck(run.candidate)
       THEN \E another \in MayRunAnother :
                EndPass(IF run.attempt = 1 THEN "Accepted" ELSE "Retried",
                        run.candidate, FALSE, another)
       ELSE IF run.attempt = 1
       THEN /\ stage' = "optimizing"
            /\ run' = [run EXCEPT !.attempt = 2, !.candidate = NoText]
            /\ passes' = passes
       ELSE \E another \in MayRunAnother :
                EndPass("Reverted", run.prompt, FALSE, another)
    /\ UNCHANGED <<modelCalls, result>>

\* Quality Evaluator: the metrics, or an EvaluationError, which omits them
Evaluate ==
    /\ stage = "evaluating"
    /\ stage' = "recording"
    /\ \E m \in {None} \cup {Some(q) : q \in QualityMetrics} :
          run' = [run EXCEPT !.metrics = m,
                             !.succeeded = IF Truthy(m) THEN @ \cup {"evaluate"} ELSE @]
    /\ UNCHANGED <<modelCalls, passes, result>>

Respond(saved) ==
    [error |-> "",
     compiled_prompt |->
         Some([full_prompt |-> run.prompt,
               template_id |-> run.template,
               optimization_level |-> run.request.optimization_level,
               optimized |-> run.optimized]),
     metrics |-> run.metrics,
     warning |-> run.warning,
     persisted |-> saved,
     succeeded |-> run.succeeded
                     \cup (IF run.optimized THEN {"optimize"} ELSE {})
                     \cup (IF saved THEN {"record"} ELSE {})]

\* a recorder whose PersistenceFailure fails the whole request
RecordVersionOrFail ==
    /\ stage = "recording"
    /\ \E saved \in BOOLEAN :
          /\ run' = [run EXCEPT !.persisted = saved]
          /\ stage' = IF saved THEN "completed" ELSE "failed"
          /\ result' = IF saved THEN Respond(saved)
                       ELSE [NoResult EXCEPT !.error = "PersistenceFailure"]
    /\ UNCHANGED <<modelCalls, passes>>

\* Version Recorder: the version is saved, or a PersistenceFailure leaves
\* it unsaved; the compiled prompt is returned in both cases
RecordVersion ==
    /\ stage = "recording"
    /\ stage' = "completed"
    /\ \E saved \in BOOLEAN :
          /\ run' = [run EXCEPT !.persisted = saved]
          /\ result' = Respond(saved)
    /\ UNCHANGED <<modelCalls, passes>>

(***************************************************************************)
(* The Template Store's usage counters, as the specification describes     *)
(* them (sections 3, 5, 6 and 9): concurrent compile requests read a       *)
(* template when they match it and record one usage of it, with the        *)
(* quality score of their prompt, when they finish.                        *)
(***************************************************************************)
\* the compile requests that run concurrently
MaxRequests == 3

VARIABLES
    \* the Template Store: usage_count and avg_quality_score of each template
    templates,
    \* each request: where it is, the template it uses, the counters it read
    \* when it matched, and the score it recorded
    users

usageVars == <<templates, users>>

Requests == 1..MaxRequests

\* quality scores, in tenths
Scores == {2, 5, 9}

RECURSIVE Gcd(_, _)
Gcd(a, b) == IF b = 0 THEN a ELSE Gcd(b, a % b)

\* the fraction num/den, in lowest terms
Fraction(num, den) ==
    LET g == Gcd(num, den) IN
    IF g = 0 THEN [num |-> 0, den |-> 1] ELSE [num |-> num \div g, den |-> den \div g]

Counters(usage_count, avg_quality_score) ==
    [usage_count |-> usage_count, avg_quality_score |-> avg_quality_score]

\* the templates before the requests: a new one, and one used once
StoredTemplates ==
    [t \in TemplateIds |->
        IF t = "t1" THEN Counters(0, Fraction(0, 1)) ELSE Counters(1, Fraction(5, 1))]

UsageInit ==
    /\ templates = StoredTemplates
    /\ users = [r \in Requests |->
                  [pc |-> "idle", template |-> "t1", seen |-> StoredTemplates["t1"],
                   score |-> 0]]

\* the running average: the mean of n scores, avg, and one more, score
RunningAverage(avg, n, score) ==
    Fraction(avg.num * n + score * avg.den, avg.den * (n + 1))

\* an update that starts from the counters the request read when it matched
CountersSeen(stored, seen) == seen

\* the counters an update starts from: those in the store, read in the
\* transaction that writes them
CountersRead(stored, seen) == stored

\* recordUsage(id, qualityScore)
recordUsage(counters, score) ==
    Counters(counters.usage_count + 1,
             RunningAverage(counters.avg_quality_score, counters.usage_count, score))

\* a request matches template t: it reads the template from the store
UseTemplate(r, t) ==
    /\ users[r].pc = "idle"
    /\ users' = [users EXCEPT ![r] = [pc |-> "matched", template |-> t,
                                      seen |-> templates[t], score |-> 0]]
    /\ UNCHANGED templates

\* a request records its usage: one atomic update of the template's counters
RecordUsage(r) ==
    /\ users[r].pc = "matched"
    /\ \E score \in Scores :
          LET t == users[r].template IN
          /\ templates' =
                [templates EXCEPT
                    ![t] = recordUsage(CountersRead(templates[t], users[r].seen), score)]
          /\ users' = [users EXCEPT ![r].pc = "done", ![r].score = score]

(***************************************************************************)
(* stores/templateStore.ts, services/templateService.ts and the template   *)
(* view (views/TemplateManagement.vue), with the server's templates        *)
(* collection.  A template is held by its template_id.                     *)
(***************************************************************************)
\* requests of the template store in flight
MaxCalls == 2
\* templates the server ever creates
MaxTemplates == 2

VARIABLES
    \* the templates collection of the server, newest first, and the
    \* template_id it gives to the next template it creates
    serverTemplates, nextTemplateId,
    \* stores/templateStore.ts: the refs loading, error, templates,
    \* currentTemplate and total of the template store
    templateLoading, templateError, templateList, currentTemplate, total,
    \* the calls of the store suspended at their await: the operation, the
    \* templateId it was called with (0 when it has none) and the outcome of
    \* its request once the server or the network has produced it
    templateCalls,
    \* the last call of the store that ended, and the value it returned
    templateLast

templateStoreVars ==
    <<templateLoading, templateError, templateList, currentTemplate, total>>
templateVars ==
    <<serverTemplates, nextTemplateId, templateLoading, templateError,
      templateList, currentTemplate, total, templateCalls, templateLast>>

TemplateInit ==
    /\ serverTemplates = << >>
    /\ nextTemplateId = 1
    /\ templateLoading = FALSE
    /\ templateError = Null
    /\ templateList = << >>
    /\ currentTemplate = None
    /\ total = 0
    /\ templateCalls = << >>
    /\ templateLast = [op |-> "none", returned |-> None]

StoredIds == 1..MaxTemplates

Ids(list) == {list[k] : k \in 1..Len(list)}
Without(list, id) == SelectSeq(list, LAMBDA t : t # id)

MSG_NOT_FOUND == "template not found"

\* a call of the store starts: loading.value = true, error.value = null,
\* and the request is sent
StartCall(op, id) ==
    /\ Len(templateCalls) < MaxCalls
    /\ templateLoading' = TRUE
    /\ templateError' = Null
    /\ templateCalls' = Append(templateCalls, [op |-> op, id |-> id, answer |-> None])
    /\ UNCHANGED <<templateList, currentTemplate, total, serverTemplates,
                   nextTemplateId, templateLast>>

\* fetchTemplates(), up to its await; the view calls it when it is mounted
fetchTemplates == StartCall("list", 0)

\* fetchTemplate(templateId), up to its await
fetchTemplate(templateId) == StartCall("get", templateId)

\* createTemplate(request), up to its await
createTemplate == StartCall("create", 0)

\* updateTemplate(templateId, updates), up to its await
updateTemplate(templateId) == StartCall("update", templateId)

\* deleteTemplate(templateId), up to its await
deleteTemplate(templateId) == StartCall("delete", templateId)

\* the create button of the modal, with the required fields filled in
handleCreateTemplate == createTemplate

\* the delete button of a template of the list, which the view shows while
\* loading is false, with the confirmation accepted
deleteTemplateConfirm(templateId) ==
    /\ ~templateLoading
    /\ templateId \in Ids(templateList)
    /\ deleteTemplate(templateId)

\* The server handles the request of a call: the templates collection is
\* read or written in one step, and the answer is on its way.
ServerHandles(k) ==
    /\ k \in 1..Len(templateCalls)
    /\ templateCalls[k].answer = None
    /\ LET call == templateCalls[k]
           found == call.id \in Ids(serverTemplates)
           answer(a) == templateCalls' = [templateCalls EXCEPT ![k].answer = Some(a)]
       IN  CASE call.op = "list" ->
                  /\ answer(Resolve([templates |-> serverTemplates,
                                     total |-> Len(serverTemplates)]))
                  /\ UNCHANGED <<serverTemplates, nextTemplateId>>
             [] call.op = "create" ->
                  /\ nextTemplateId <= MaxTemplates
                  /\ serverTemplates' = <<nextTemplateId>> \o serverTemplates
                  /\ nextTemplateId' = nextTemplateId + 1
                  /\ answer(Resolve(nextTemplateId))
             [] call.op = "delete" ->
                  /\ answer(IF found THEN Resolve(call.id) ELSE Reject(404, MSG_NOT_FOUND))
                  /\ serverTemplates' = Without(serverTemplates, call.id)
                  /\ UNCHANGED nextTemplateId
             [] call.op \in {"get", "update"} ->
                  /\ answer(IF found THEN Resolve(call.id) ELSE Reject(404, MSG_NOT_FOUND))
                  /\ UNCHANGED <<serverTemplates, nextTemplateId>>
    /\ UNCHANGED <<templateStoreVars, templateLast>>

\* The request of a call fails on the network, or times out: before the
\* server handled it, or with the answer lost.
RequestFails(k) ==
    /\ k \in 1..Len(templateCalls)
    /\ templateCalls[k].answer \notin {Some(ResponseInterceptor(RawNetworkError))}
    /\ templateCalls' =
          [templateCalls EXCEPT ![k].answer = Some(ResponseInterceptor(RawNetworkError))]
    /\ UNCHANGED <<templateStoreVars, serverTemplates, nextTemplateId, templateLast>>

\* templates.value.findIndex(t => t.template_id === templateId), from 1; 0
\* for none
findIndex(list, templateId) ==
    IF templateId \in Ids(list)
    THEN CHOOSE k \in 1..Len(list) :
            list[k] = templateId /\ \A j \in 1..(k - 1) : list[j] # templateId
    ELSE 0

\* a createTemplate that makes the new template the current one
CallSettledSelectsCreated(k) ==
    /\ k \in 1..Len(templateCalls)
    /\ templateCalls[k].answer # None
    /\ LET call == templateCalls[k]
           outcome == Unwrap(call.answer)
       IN  IF ~outcome.resolved
           THEN /\ templateError' = outcome.message
                /\ UNCHANGED <<templateList, currentTemplate, total>>
           ELSE /\ templateError' = templateError
                /\ CASE call.op = "list" ->
                          /\ templateList' = outcome.value.templates
                          /\ total' = outcome.value.total
                          /\ UNCHANGED currentTemplate
                     [] call.op = "get" ->
                          /\ currentTemplate' = Some(outcome.value)
                          /\ UNCHANGED <<templateList, total>>
                     [] call.op = "create" ->
                          /\ templateList' = <<outcome.value>> \o templateList
                          /\ total' = total + 1
                          /\ currentTemplate' = Some(outcome.value)
                     [] call.op = "update" ->
                          /\ templateList' =
                                IF findIndex(templateList, call.id) # 0
                                THEN [templateList EXCEPT
                                         ![findIndex(templateList, call.id)] = outcome.value]
                                ELSE templateList
                          /\ currentTemplate' =
                                IF currentTemplate = Some(call.id) THEN Some(outcome.value)
                                ELSE currentTemplate
                          /\ UNCHANGED total
                     [] call.op = "delete" ->
                          /\ templateList' = Without(templateList, call.id)
                          /\ total' = total - 1
                          /\ currentTemplate' =
                                IF currentTemplate = Some(call.id) THEN None
                                ELSE currentTemplate
    /\ templateLast' =
          LET call == templateCalls[k]
              outcome == Unwrap(call.answer)
          IN  [op |-> call.op,
               returned |-> CASE call.op = "list" -> None
                              [] call.op = "delete" -> Some(outcome.resolved)
                              [] OTHER -> IF outcome.resolved THEN Some(outcome.value)
                                          ELSE None]
    /\ templateLoading' = FALSE
    /\ templateCalls' = RemoveAt(templateCalls, k)
    /\ UNCHANGED <<serverTemplates, nextTemplateId>>

\* The rest of a call, from the settling of its await to its end: the try
\* block, the catch block and the finally block.
CallSettled(k) ==
    /\ k \in 1..Len(templateCalls)
    /\ templateCalls[k].answer # None
    /\ LET call == templateCalls[k]
           outcome == Unwrap(call.answer)
       IN  IF ~outcome.resolved
           THEN /\ templateError' = outcome.message
                /\ UNCHANGED <<templateList, currentTemplate, total>>
           ELSE /\ templateError' = templateError
                /\ CASE call.op = "list" ->
                          /\ templateList' = outcome.value.templates
                          /\ total' = outcome.value.total
                          /\ UNCHANGED currentTemplate
                     [] call.op = "get" ->
                          /\ currentTemplate' = Some(outcome.value)
                          /\ UNCHANGED <<templateList, total>>
                     [] call.op = "create" ->
                          /\ templateList' = <<outcome.value>> \o templateList
                          /\ total' = total + 1
                          /\ UNCHANGED currentTemplate
                     [] call.op = "update" ->
                          /\ templateList' =
                                IF findIndex(templateList, call.id) # 0
                                THEN [templateList EXCEPT
                                         ![findIndex(templateList, call.id)] = outcome.value]
                                ELSE templateList
                          /\ currentTemplate' =
                                IF currentTemplate = Some(call.id) THEN Some(outcome.value)
                                ELSE currentTemplate
                          /\ UNCHANGED total
                     [] call.op = "delete" ->
                          /\ templateList' = Without(templateList, call.id)
                          /\ total' = total - 1
                          /\ currentTemplate' =
                                IF currentTemplate = Some(call.id) THEN None
                                ELSE currentTemplate
    /\ templateLast' =
          LET call == templateCalls[k]
              outcome == Unwrap(call.answer)
          IN  [op |-> call.op,
               returned |-> CASE call.op = "list" -> None
                              [] call.op = "delete" -> Some(outcome.resolved)
                              [] OTHER -> IF outcome.resolved THEN Some(outcome.value)
                                          ELSE None]
    /\ templateLoading' = FALSE
    /\ templateCalls' = RemoveAt(templateCalls, k)
    /\ UNCHANGED <<serverTemplates, nextTemplateId>>

(***************************************************************************)
(* The Template Matcher, as the specification describes it (section 4.2):  *)
(* it scores every candidate template against the intent and returns the  *)
(* best one, or no match.                                                  *)
(***************************************************************************)
\* candidate templates of one call
MaxCandidates == 3
\* calls of the matcher on the same intent and candidates
MaxMatches == 2

VARIABLES
    \* the IntentResult and the candidate templates the matcher is called on
    intent, candidates,
    \* what each call returned: a template, or no value for no match
    selections

matcherVars == <<intent, candidates, selections>>

IntentResult(task_type, domain, keywords) ==
    [task_type |-> task_type, domain |-> domain, keywords |-> keywords]

Intents ==
    {IntentResult("analysis", "finance", {"report", "risk"}),
     IntentResult("other", "general", {"poem"})}

MatchedTemplate(template_id, task_types, domains, tags, usage_count, avg_quality_score, created_at) ==
    [template_id |-> template_id, task_types |-> task_types, domains |-> domains,
     tags |-> tags, usage_count |-> usage_count,
     avg_quality_score |-> avg_quality_score, created_at |-> created_at]

\* templates of the Template Store; avg_quality_score in tenths
Catalogue ==
    {MatchedTemplate("report_a", {"analysis"}, {"finance"}, {"report"}, 3, 8, 1),
     MatchedTemplate("report_b", {"analysis"}, {"finance"}, {"report"}, 5, 8, 2),
     MatchedTemplate("report_c", {"analysis"}, {"finance"}, {"report"}, 5, 8, 3),
     MatchedTemplate("analysis_only", {"analysis"}, {"health"}, {}, 9, 10, 4),
     MatchedTemplate("story", {"generation"}, {"fiction"}, {"poem"}, 7, 9, 5)}

\* the candidate lists: the templates of a list are distinct
CandidateLists ==
    UNION {{c \in [1..n -> Catalogue] : \A j, k \in 1..n : j # k => c[j] # c[k]} :
              n \in 0..MaxCandidates}

\* the weights of the similarity score and the minimum threshold, in
\* hundredths
WEIGHT_TASK_TYPE == 40
WEIGHT_DOMAIN == 30
WEIGHT_TAGS == 20
WEIGHT_QUALITY == 10
MIN_SCORE == 50

\* the similarity score of a template: task_type membership, domain
\* membership, tag/keyword overlap ratio, and the historical quality as a bonus
Similarity(i, t) ==
    (IF i.task_type \in t.task_types THEN WEIGHT_TASK_TYPE ELSE 0)
    + (IF i.domain \in t.domains THEN WEIGHT_DOMAIN ELSE 0)
    + (WEIGHT_TAGS * Cardinality(t.tags \cap i.keywords)) \div Cardinality(i.keywords)
    + (WEIGHT_QUALITY * t.avg_quality_score) \div 10

\* candidate j comes before candidate k: higher score, then higher
\* usage_count, then earlier created_at, then the order of the list
Precedes(i, list, j, k) ==
    LET a == list[j]
        b == list[k]
    IN  \/ Similarity(i, a) > Similarity(i, b)
        \/ /\ Similarity(i, a) = Similarity(i, b)
           /\ \/ a.usage_count > b.usage_count
              \/ /\ a.usage_count = b.usage_count
                 /\ \/ a.created_at < b.created_at
                    \/ a.created_at = b.created_at /\ j < k

\* a matcher that returns the best candidate whatever its score
WinnersBelowThreshold(i, list) ==
    IF list = << >> THEN {None}
    ELSE {Some(list[j]) : j \in {j \in 1..Len(list) :
                \A k \in 1..Len(list) : k # j => Precedes(i, list, j, k)}}

\* what the matcher may return: the candidate at or above the threshold
\* that precedes the others, or no match
Winners(i, list) ==
    LET eligible == {j \in 1..Len(list) : Similarity(i, list[j]) >= MIN_SCORE}
    IN  IF eligible = {} THEN {None}
        ELSE {Some(list[j]) : j \in {j \in eligible :
                \A k \in eligible : k # j => Precedes(i, list, j, k)}}

MatcherInit ==
    /\ intent = IntentResult("analysis", "finance", {"report", "risk"})
    /\ candidates = << >>
    /\ selections = << >>

\* a request reaches the matcher with its intent and the templates that the
\* Template Store lists
ListCandidates ==
    /\ \E i \in Intents, c \in CandidateLists :
          /\ intent' = i
          /\ candidates' = c
    /\ selections' = << >>

\* one call of the matcher
Match ==
    /\ Len(selections) < MaxMatches
    /\ \E w \in Winners(intent, candidates) : selections' = Append(selections, w)
    /\ UNCHANGED <<intent, candidates>>

(***************************************************************************)
(* The Quality Evaluator's scores, as the specification describes them     *)
(* (sections 3 and 4.5).  Sub-scores and weights are in tenths, the        *)
(* overall score in hundredths.                                            *)
(***************************************************************************)
VARIABLES
    \* the configured weights of the four sub-scores
    weights,
    \* the QualityMetrics of the latest evaluation, none before the first
    metrics

evaluatorVars == <<weights, metrics>>

SubScoreValues == {0, 5, 10}

SubScores(structure_score, consistency_score, completeness_score, clarity_score) ==
    [structure_score |-> structure_score, consistency_score |-> consistency_score,
     completeness_score |-> completeness_score, clarity_score |-> clarity_score]

\* the weightings the specification admits: the weights sum to 1, and
\* structure and completeness each weigh more than clarity
Weightings ==
    {w \in [structure : 1..10, consistency : 1..10, completeness : 1..10,
            clarity : 1..10] :
        /\ w.structure + w.consistency + w.completeness + w.clarity = 10
        /\ w.structure > w.clarity
        /\ w.completeness > w.clarity}

\* the weighting in use when none is configured
SCORE_WEIGHTS == [structure |-> 3, consistency |-> 2, completeness |-> 3, clarity |-> 2]

\* an overall score that is the plain mean of the sub-scores
OverallScoreMean(w, s) ==
    (10 * (s.structure_score + s.consistency_score + s.completeness_score
            + s.clarity_score)) \div 4

\* overall_score: the weighted sum of the four sub-scores
OverallScore(w, s) ==
    w.structure * s.structure_score + w.consistency * s.consistency_score
        + w.completeness * s.completeness_score + w.clarity * s.clarity_score

Metrics(w, s) ==
    [structure_score |-> s.structure_score, consistency_score |-> s.consistency_score,
     completeness_score |-> s.completeness_score, clarity_score |-> s.clarity_score,
     overall_score |-> OverallScore(w, s)]

EvaluatorInit ==
    /\ weights = SCORE_WEIGHTS
    /\ metrics = None

\* the weights are configuration: any admitted weighting may be in use
Configure ==
    /\ weights' \in Weightings
    /\ metrics' = None

\* one evaluation of a prompt text, whose sub-scores the evaluator computed
Score ==
    /\ \E a, b, c, d \in SubScoreValues :
          metrics' = Some(Metrics(weights, SubScores(a, b, c, d)))
    /\ UNCHANGED weights

\* the state of the parts that follow the compile view, the pipeline and the
\* usage counters
(***************************************************************************)
(* The history store (stores/historyStore.ts) and the history view.  The   *)
(* server holds ServerRecords history records, numbered from the newest;   *)
(* a record is modelled by its number.                                     *)
(***************************************************************************)

\* history records the server holds
ServerRecords == 45
\* calls of fetchHistory awaiting their response at one time
MaxFetches == 2

VARIABLES
    \* the refs loading, error, records, total and currentPage of the store
    historyLoading, historyError, records, historyTotal, currentPage,
    \* the calls of fetchHistory suspended at their await, with the page
    \* and the request parameters of each
    historyCalls,
    \* the last call of nextPage, prevPage or fetchHistory, and whether it
    \* sent a request
    historyLast

historyVars == <<historyLoading, historyError, records, historyTotal,
                 currentPage, historyCalls, historyLast>>

\* const pageSize = ref(20)
pageSize == 20

\* the fallback of `err.message || ...` in the catch block
MSG_HISTORY_FAILED == "fetching the history failed"

HistoryInit ==
    /\ historyLoading = FALSE
    /\ historyError = Null
    /\ records = << >>
    /\ historyTotal = 0
    /\ currentPage = 1
    /\ historyCalls = << >>
    /\ historyLast = [op |-> "none", sent |-> FALSE]

\* Math.ceil(total.value / pageSize.value)
totalPages == (historyTotal + pageSize - 1) \div pageSize

\* GET /history/ with limit and skip: the records skip+1 .. skip+limit the
\* server holds, and their number
HistoryListResponse(limit, skip) ==
    [records |-> [n \in 1..(IF ServerRecords - skip > limit THEN limit
                            ELSE IF ServerRecords > skip THEN ServerRecords - skip
                            ELSE 0) |-> skip + n],
     total |-> ServerRecords]

\* the outcomes of historyService.list(params) behind the interceptor
HistoryOutcomes(call) ==
    {Resolve(HistoryListResponse(call.limit, call.skip)),
     ResponseInterceptor(RawNetworkError)}

\* fetchHistory(page), up to its await
fetchHistory(page) ==
    /\ Len(historyCalls) < MaxFetches
    /\ historyLoading' = TRUE
    /\ historyError' = Null
    /\ currentPage' = page
    /\ historyCalls' = Append(historyCalls,
                              [page |-> page, limit |-> pageSize,
                               skip |-> (page - 1) * pageSize])
    /\ UNCHANGED <<records, historyTotal>>

\* fetchHistory(page) from the settling of its await to its end: the try
\* block, the catch block and the finally block
fetchHistorySettled(k, outcome) ==
    /\ k \in 1..Len(historyCalls)
    /\ IF outcome.resolved
       THEN /\ records' = outcome.value.records
            /\ historyTotal' = outcome.value.total
            /\ historyError' = historyError
       ELSE /\ historyError' = (IF outcome.message # "" THEN outcome.message
                                ELSE MSG_HISTORY_FAILED)
            /\ UNCHANGED <<records, historyTotal>>
    /\ historyLoading' = FALSE
    /\ historyCalls' = RemoveAt(historyCalls, k)
    /\ UNCHANGED <<currentPage, historyLast>>

\* the response, or the failure, of the request of call k arrives: the
\* requests are answered in any order
HistoryAnswer(k) ==
    /\ k \in 1..Len(historyCalls)
    /\ \E outcome \in HistoryOutcomes(historyCalls[k]) : fetchHistorySettled(k, outcome)

\* onMounted of the history view: historyStore.fetchHistory()
onMountedHistory ==
    /\ fetchHistory(1)
    /\ historyLast' = [op |-> "fetchHistory", sent |-> TRUE]

\* a nextPage() that fetches whatever the page is
nextPageUnguarded ==
    /\ fetchHistory(currentPage + 1)
    /\ historyLast' = [op |-> "nextPage", sent |-> TRUE]

\* nextPage()
nextPage ==
    IF currentPage < totalPages
    THEN /\ fetchHistory(currentPage + 1)
         /\ historyLast' = [op |-> "nextPage", sent |-> TRUE]
    ELSE /\ historyLast' = [op |-> "nextPage", sent |-> FALSE]
         /\ UNCHANGED <<historyLoading, historyError, records, historyTotal,
                        currentPage, historyCalls>>

\* prevPage()
prevPage ==
    IF currentPage > 1
    THEN /\ fetchHistory(currentPage - 1)
         /\ historyLast' = [op |-> "prevPage", sent |-> TRUE]
    ELSE /\ historyLast' = [op |-> "prevPage", sent |-> FALSE]
         /\ UNCHANGED <<historyLoading, historyError, records, historyTotal,
                        currentPage, historyCalls>>

laterVars == <<templateVars, matcherVars, evaluatorVars, historyVars>>
otherVars == <<optimizeCalls, laterVars>>

UsageNext ==
    \/ \E r \in Requests, t \in TemplateIds :
          UseTemplate(r, t) /\ UNCHANGED <<frontVars, pipeVars, otherVars>>
    \/ \E r \in Requests : RecordUsage(r) /\ UNCHANGED <<frontVars, pipeVars, otherVars>>

\* the pipeline of one compile request
PipeNext ==
    \/ Submit /\ UNCHANGED <<frontVars, usageVars, otherVars>>
    \/ ExtractIntent /\ UNCHANGED <<frontVars, usageVars, otherVars>>
    \/ MatchTemplate /\ UNCHANGED <<frontVars, usageVars, otherVars>>
    \/ Assemble /\ UNCHANGED <<frontVars, usageVars, otherVars>>
    \/ CallModel /\ UNCHANGED <<frontVars, usageVars, otherVars>>
    \/ SelfCheckStep /\ UNCHANGED <<frontVars, usageVars, otherVars>>
    \/ Evaluate /\ UNCHANGED <<frontVars, usageVars, otherVars>>
    \/ RecordVersion /\ UNCHANGED <<frontVars, usageVars, otherVars>>

vars == <<loading, progress, error, currentPrompt, currentMetrics, suggestions,
          inflight, resetTimers, last, stage, run, modelCalls, passes, result,
          templates, users, optimizeCalls,
          serverTemplates, nextTemplateId, templateLoading, templateError,
          templateList, currentTemplate, total, templateCalls, templateLast,
          intent, candidates, selections, weights, metrics,
          historyLoading, historyError, records, historyTotal, currentPage,
          historyCalls, historyLast>>

Init ==
    /\ FrontInit /\ PipeInit /\ UsageInit
    /\ optimizeCalls = << >>
    /\ TemplateInit
    /\ MatcherInit
    /\ EvaluatorInit
    /\ HistoryInit

backVars == <<stage, run, modelCalls, passes, result, templates, users>>

\* the compile view, the prompt store and the client
Next ==
    \/ HandleCompile /\ UNCHANGED <<backVars, otherVars>>
    \/ \E i \in 1..MaxTimers : ProgressTick(i) /\ UNCHANGED <<backVars, otherVars>>
    \/ \E i \in 1..MaxTimers : Answer(i) /\ UNCHANGED <<backVars, otherVars>>
    \/ \E i \in 1..MaxTimers : ClientTimeout(i) /\ UNCHANGED <<backVars, otherVars>>
    \/ ResetFires /\ UNCHANGED <<backVars, otherVars>>

Spec == Init /\ [][Next]_vars

\* The event loop runs a timer that is due: the timeout timer of axios fires
\* unless the request settles before.
LiveSpec ==
    Spec /\ \A i \in 1..MaxTimers : WF_vars(ClientTimeout(i) /\ UNCHANGED <<backVars, otherVars>>)

\* the prompt store: compile() called by the compile view, optimize() and
\* reset() by any client
StoreNext ==
    \/ CompileFilledForm /\ UNCHANGED <<backVars, otherVars>>
    \/ \E i \in 1..MaxTimers : ProgressTick(i) /\ UNCHANGED <<backVars, otherVars>>
    \/ \E i \in 1..MaxTimers : Answer(i) /\ UNCHANGED <<backVars, otherVars>>
    \/ \E i \in 1..MaxTimers : ClientTimeout(i) /\ UNCHANGED <<backVars, otherVars>>
    \/ ResetFires /\ UNCHANGED <<backVars, otherVars>>
    \/ \E request \in OptimizeRequest : optimize(request) /\ UNCHANGED <<backVars, laterVars>>
    \/ \E i \in 1..MaxOptimize : OptimizeAnswer(i) /\ UNCHANGED <<backVars, laterVars>>
    \/ reset /\ UNCHANGED <<backVars, laterVars>>

StoreSpec == Init /\ [][StoreNext]_vars

\* the template view, the template store, the network and the server
TemplateNext ==
    \/ fetchTemplates /\ UNCHANGED <<frontVars, backVars, optimizeCalls, matcherVars, evaluatorVars, historyVars>>
    \/ handleCreateTemplate /\ UNCHANGED <<frontVars, backVars, optimizeCalls, matcherVars, evaluatorVars, historyVars>>
    \/ \E id \in StoredIds :
          deleteTemplateConfirm(id) /\ UNCHANGED <<frontVars, backVars, optimizeCalls, matcherVars, evaluatorVars, historyVars>>
    \/ \E id \in StoredIds :
          updateTemplate(id) /\ UNCHANGED <<frontVars, backVars, optimizeCalls, matcherVars, evaluatorVars, historyVars>>
    \/ \E id \in StoredIds :
          fetchTemplate(id) /\ UNCHANGED <<frontVars, backVars, optimizeCalls, matcherVars, evaluatorVars, historyVars>>
    \/ \E k \in 1..MaxCalls :
          ServerHandles(k) /\ UNCHANGED <<frontVars, backVars, optimizeCalls, matcherVars, evaluatorVars, historyVars>>
    \/ \E k \in 1..MaxCalls :
          RequestFails(k) /\ UNCHANGED <<frontVars, backVars, optimizeCalls, matcherVars, evaluatorVars, historyVars>>
    \/ \E k \in 1..MaxCalls :
          CallSettled(k) /\ UNCHANGED <<frontVars, backVars, optimizeCalls, matcherVars, evaluatorVars, historyVars>>

TemplateSpec == Init /\ [][TemplateNext]_vars

\* the Template Matcher
MatcherNext ==
    \/ ListCandidates /\ UNCHANGED <<frontVars, backVars, optimizeCalls, templateVars, evaluatorVars, historyVars>>
    \/ Match /\ UNCHANGED <<frontVars, backVars, optimizeCalls, templateVars, evaluatorVars, historyVars>>

MatcherSpec == Init /\ [][MatcherNext]_vars

\* the scores of the Quality Evaluator
EvaluatorNext ==
    \/ Configure /\ UNCHANGED <<frontVars, backVars, optimizeCalls, templateVars, matcherVars, historyVars>>
    \/ Score /\ UNCHANGED <<frontVars, backVars, optimizeCalls, templateVars, matcherVars, historyVars>>

EvaluatorSpec == Init /\ [][EvaluatorNext]_vars

\* the history store
HistoryFrame == UNCHANGED <<frontVars, backVars, optimizeCalls, templateVars, matcherVars, evaluatorVars>>

HistoryNext ==
    \/ onMountedHistory /\ HistoryFrame
    \/ nextPage /\ HistoryFrame
    \/ prevPage /\ HistoryFrame
    \/ \E k \in 1..MaxFetches : HistoryAnswer(k) /\ HistoryFrame

HistorySpec == Init /\ [][HistoryNext]_vars

\* the pipeline of the backend
PipelineSpec == Init /\ [][PipeNext]_vars

\* concurrent requests on the Template Store
UsageSpec == Init /\ [][UsageNext]_vars

(***************************************************************************)
(* Properties of the compile view and the prompt store.                    *)
(***************************************************************************)
InFlight == Len(inflight) > 0
TheRequest == inflight[1].request
Settled == progress \in {COMPLETED, ERROR}

\* C1: while a compile request is in flight progress only moves forward in
\* the order idle, starting, extracting_intent, generating_prompt,
\* optimizing, self_checking, evaluating, and it becomes completed or error
\* only in the step in which the request settles.
C1_ProgressOrder ==
    [][/\ (InFlight /\ InFlight') =>
              progressPercentage(progress') >= progressPercentage(progress)
       /\ (progress' \in {COMPLETED, ERROR} /\ progress' # progress) =>
              Len(inflight') < Len(inflight)]_vars

\* C2: every compile request in flight eventually settles, with progress
\* completed or error and loading false; the timeout of the client settles
\* it as a failure.
C2_EventuallySettles ==
    /\ [](InFlight => <>(~InFlight /\ Settled /\ ~loading))
    /\ [][\A i \in 1..Len(inflight) :
            ClientTimeout(i) => /\ progress' = ERROR
                                /\ error' = MSG_TIMEOUT
                                /\ ~loading'
                                /\ Len(inflight') < Len(inflight)]_vars

C2_Witness ==
    /\ last.op = "compile:null"
    /\ progress = ERROR
    /\ error = MSG_TIMEOUT
    /\ ~loading
    /\ ~InFlight

LowInFlight == InFlight /\ TheRequest.optimization_level = LOW

\* C6 as stated: while a request with optimization_level = low is in flight,
\* progress is never optimizing nor self_checking, and it leaves
\* generating_prompt only for evaluating, completed or error.
C6_LowSkipsSelfCheck ==
    [][LowInFlight' =>
          /\ progress' \notin {OPTIMIZING, SELF_CHECKING}
          /\ (LowInFlight /\ progress = GENERATING_PROMPT /\ progress' # progress)
                => progress' \in {EVALUATING, COMPLETED, ERROR}]_vars

\* C6 as amended: while a request with optimization_level = low is in
\* flight, progress is never optimizing; the timer moves it from
\* generating_prompt to self_checking, and only from there to evaluating.
C6_LowSkipsOptimizing ==
    [][/\ LowInFlight' => progress' # OPTIMIZING
       /\ (LowInFlight /\ LowInFlight' /\ progress' # progress) =>
              /\ progress = GENERATING_PROMPT => progress' = SELF_CHECKING
              /\ progress' = SELF_CHECKING => progress = GENERATING_PROMPT
              /\ progress' = EVALUATING => progress = SELF_CHECKING]_vars

C6_Witness == LowInFlight /\ progress = SELF_CHECKING

\* C7: while a request with auto_evaluate = false is in flight progress is
\* never evaluating, and progress becomes evaluating only from
\* self_checking, for a request in flight with auto_evaluate = true.
C7_EvaluatingIsConditional ==
    [][/\ (InFlight' /\ ~TheRequest'.auto_evaluate) => progress' # EVALUATING
       /\ (progress' = EVALUATING /\ progress # EVALUATING) =>
              /\ progress = SELF_CHECKING
              /\ InFlight /\ TheRequest.auto_evaluate]_vars

\* a request without auto_evaluate completed after the timer had reached
\* self_checking
C7_Witness ==
    /\ last.op = "compile:response"
    /\ ~Unwrap(last.request).auto_evaluate
    /\ last.progressBefore = SELF_CHECKING
    /\ progress = COMPLETED

\* C8: pressing the compile button with an empty input sends no request and
\* leaves loading, progress, error, currentPrompt, currentMetrics and
\* suggestions as they were.
C8_EmptyInputRejected ==
    [][\A optimizationLevel \in OptimizationLevel, autoEvaluate \in BOOLEAN :
          pressCompile("", optimizationLevel, autoEvaluate) =>
              UNCHANGED <<loading, progress, error, currentPrompt,
                          currentMetrics, suggestions, inflight>>]_vars

C8_Witness == last.op = "click:disabled" /\ ~loading

\* C9: a response with compiled_prompt and without metrics is a successful
\* compile: currentPrompt is the returned prompt, currentMetrics is null,
\* suggestions is the returned list or the empty one, progress is completed
\* and error is null.
C9_MissingMetricsIsSuccess ==
    [][\A i \in 1..Len(inflight), body \in CompileResponse :
          (/\ Truthy(body.compiled_prompt)
           /\ body.metrics = None
           /\ compileSettled(i, Resolve(Some(body)))) =>
              /\ currentPrompt' = Unwrap(body.compiled_prompt)
              /\ currentMetrics' = Null
              /\ suggestions' = (IF body.suggestions = None THEN << >>
                                 ELSE Unwrap(body.suggestions))
              /\ progress' = COMPLETED
              /\ error' = Null]_vars

\* a compile without metrics completed while the store held the metrics of
\* an earlier one
C9_Witness ==
    /\ last.op = "compile:response"
    /\ Unwrap(last.returned).metrics = None
    /\ last.metricsBefore # Null
    /\ currentMetrics = Null
    /\ progress = COMPLETED
    /\ error = Null

\* C16: while a compile request is in flight, and loading is true, progress
\* is not idle: the delayed reset of an earlier compile does not put it back
\* to idle during a later compile.
C16_ProgressWhileLoading ==
    (InFlight /\ loading) => progress # IDLE

FailedOutcome(outcome) == ~(outcome.resolved /\ hasCompiledPrompt(outcome.value))

\* C17: a compile whose request is rejected, or whose response has no
\* compiled_prompt, leaves currentPrompt, currentMetrics and suggestions as
\* they were, sets error to a message, sets progress to error, ends its
\* progress timer (the timer lives as long as the call's entry of inflight)
\* and returns null.
C17_FailureKeepsPrompt ==
    [][\A i \in 1..Len(inflight), raw \in RawAnswers \cup {RawTimeout} :
          (/\ FailedOutcome(ResponseInterceptor(raw))
           /\ compileSettled(i, ResponseInterceptor(raw))) =>
              /\ UNCHANGED <<currentPrompt, currentMetrics, suggestions>>
              /\ error' \notin {Null, ""}
              /\ progress' = ERROR
              /\ inflight' = RemoveAt(inflight, i)
              /\ last'.op = "compile:null"
              /\ last'.returned = None]_vars

\* a compile failed while the store held the prompt, the metrics and the
\* suggestions of an earlier one
C17_Witness ==
    /\ last.op = "compile:null"
    /\ currentPrompt \in CompiledPrompt
    /\ currentMetrics \in QualityMetrics
    /\ suggestions # << >>
    /\ progress = ERROR
    /\ error = MSG_BAD_FORMAT

\* C18: a compile that succeeds sets progress to completed, which stays
\* until a delayed reset sets it to idle or a new compile starts; a compile
\* that fails sets progress to error, which stays until a new compile
\* starts: the delayed reset leaves error as it is.
C18_ResetKeepsError ==
    [][/\ (last'.op = "compile:response" /\ Len(inflight') < Len(inflight)) =>
              progress' = COMPLETED
       /\ (last'.op = "compile:null" /\ Len(inflight') < Len(inflight)) =>
              progress' = ERROR
       /\ (ResetFires /\ ~InFlight /\ progress = COMPLETED) => progress' = IDLE
       /\ (ResetFires /\ progress = ERROR) => progress' = ERROR
       /\ (progress = COMPLETED /\ progress' # COMPLETED) =>
              \/ progress' = IDLE /\ resetTimers' < resetTimers
              \/ progress' = STARTING /\ Len(inflight') > Len(inflight)
       /\ (progress = ERROR /\ progress' # ERROR) =>
              progress' = STARTING /\ Len(inflight') > Len(inflight)]_vars

\* the delayed reset of a failed compile has fired, and progress is error
C18_Witness ==
    /\ last.op = "compile:null"
    /\ progress = ERROR
    /\ resetTimers = 0
    /\ ~InFlight

\* C20: a compile starts from the view only with a non-empty input and with
\* loading false; at most one compile request, with its progress timer, is
\* in flight, and loading is true while it is.
C20_OneCompileInFlight ==
    [][/\ Len(inflight') <= 1
       /\ InFlight' => loading'
       /\ Len(inflight') > Len(inflight) =>
              /\ ~loading
              /\ ~InFlight
              /\ inflight'[Len(inflight')].request.user_input # ""]_vars

\* a compile is in flight that started while the delayed reset of the one
\* before was pending
C20_Witness ==
    /\ Len(inflight) = 1
    /\ loading
    /\ inflight[1].stale > 0

(***************************************************************************)
(* Properties of optimize().                                               *)
(***************************************************************************)
\* C11: optimize, whether its request succeeds or fails, leaves
\* currentPrompt, currentMetrics and suggestions as they were, at its start
\* and at its end; it returns the response it received, or null.
C11_OptimizeLeavesPrompt ==
    [][/\ \A request \in OptimizeRequest :
             optimize(request) =>
                 UNCHANGED <<currentPrompt, currentMetrics, suggestions>>
       /\ \A i \in 1..Len(optimizeCalls), raw \in RawOptimizeAnswers :
             optimizeSettled(i, ResponseInterceptor(raw)) =>
                 /\ UNCHANGED <<currentPrompt, currentMetrics, suggestions>>
                 /\ last'.returned =
                       (IF raw.status = "fulfilled" THEN raw.data ELSE None)]_vars

\* optimize returned an optimized text while the store held a compiled prompt
C11_Witness ==
    /\ last.op = "optimize:response"
    /\ Truthy(last.returned)
    /\ Unwrap(last.returned).optimized_prompt = "optimized text"
    /\ currentPrompt \in CompiledPrompt
    /\ ~loading

(***************************************************************************)
(* Properties of the template store.                                       *)
(***************************************************************************)
NoDuplicate(list) ==
    \A j, k \in 1..Len(list) : j # k => list[j] # list[k]

\* C12: the template list of the store never holds two templates with the
\* same template_id, whatever the interleaving of the requests and of their
\* responses, the server never holding two templates with one id.
C12_TemplateIdUnique ==
    NoDuplicate(serverTemplates) => NoDuplicate(templateList)

\* C19: in the prompt store and in the template store loading is true
\* exactly while a request of the store is in flight.
C19_LoadingWhilePending ==
    /\ loading <=> (Len(inflight) + Len(optimizeCalls) > 0)
    /\ templateLoading <=> (Len(templateCalls) > 0)

\* C23: a createTemplate that succeeds puts the returned template at the
\* head of the list, leaves the templates after it as they were, raises
\* total by 1 and returns the template; one that fails leaves the list and
\* total as they were, sets error and returns null; neither changes
\* currentTemplate.
C23_CreateTemplateEffects ==
    [][\A k \in 1..Len(templateCalls) :
          (templateCalls[k].op = "create" /\ CallSettled(k)) =>
              LET outcome == Unwrap(templateCalls[k].answer)
              IN  /\ currentTemplate' = currentTemplate
                  /\ templateLast'.op = "create"
                  /\ IF outcome.resolved
                     THEN /\ Len(templateList') = Len(templateList) + 1
                          /\ templateList'[1] = outcome.value
                          /\ \A j \in 1..Len(templateList) :
                                templateList'[j + 1] = templateList[j]
                          /\ total' = total + 1
                          /\ templateLast'.returned = Some(outcome.value)
                     ELSE /\ templateList' = templateList
                          /\ total' = total
                          /\ templateError' \notin {Null, ""}
                          /\ templateLast'.returned = None]_vars

\* a createTemplate succeeded with a template in the list and a current
\* template in the store
C23_Witness ==
    /\ templateLast.op = "create"
    /\ templateLast.returned # None
    /\ Len(templateList) >= 2
    /\ templateList[1] = Unwrap(templateLast.returned)
    /\ currentTemplate # None
    /\ currentTemplate # templateLast.returned

\* C24: total is never negative and never smaller than the number of
\* templates in the list.
C24_TotalCoversList ==
    total >= 0 /\ total >= Len(templateList)

(***************************************************************************)
(* Properties of the history store.                                        *)
(***************************************************************************)

\* C21: when no fetch of the history is in flight and records have been
\* loaded, the records of the store are the ones the server returns for
\* page currentPage.
C21_RecordsOfCurrentPage ==
    (historyCalls = << >> /\ historyTotal > 0) =>
        records = HistoryListResponse(pageSize, (currentPage - 1) * pageSize).records

\* C22: nextPage sends a fetch and raises currentPage by 1 only when
\* currentPage < totalPages, prevPage sends a fetch and lowers it by 1 only
\* when currentPage > 1, and otherwise each changes and sends nothing; with
\* total unchanged, no step takes currentPage out of 1..totalPages.
C22_PageWithinBounds ==
    [][/\ nextPage =>
              IF currentPage < totalPages
              THEN /\ currentPage' = currentPage + 1
                   /\ historyCalls' = Append(historyCalls,
                          [page |-> currentPage + 1, limit |-> pageSize,
                           skip |-> currentPage * pageSize])
              ELSE UNCHANGED <<historyLoading, historyError, records,
                               historyTotal, currentPage, historyCalls>>
       /\ prevPage =>
              IF currentPage > 1
              THEN /\ currentPage' = currentPage - 1
                   /\ historyCalls' = Append(historyCalls,
                          [page |-> currentPage - 1, limit |-> pageSize,
                           skip |-> (currentPage - 2) * pageSize])
              ELSE UNCHANGED <<historyLoading, historyError, records,
                               historyTotal, currentPage, historyCalls>>
       /\ (historyTotal' = historyTotal /\ currentPage \in 1..totalPages) =>
              currentPage' \in 1..totalPages]_vars

\* nextPage was called on the last page while an earlier fetch was awaiting
\* its response, and sent nothing
C22_Witness ==
    /\ historyLast = [op |-> "nextPage", sent |-> FALSE]
    /\ historyTotal > 0
    /\ currentPage = totalPages
    /\ currentPage > 1
    /\ historyCalls # << >>

(***************************************************************************)
(* Properties of the Template Matcher.                                     *)
(***************************************************************************)
Eligible == {j \in 1..Len(candidates) : Similarity(intent, candidates[j]) >= MIN_SCORE}

\* C13: the matcher never returns a template that scores below the minimum
\* threshold; it returns no match exactly when no candidate reaches the
\* threshold, the empty candidate list included; every call on the same
\* intent and candidates returns the same template; no other candidate at
\* or above the threshold has a higher score than the returned one, or the
\* same score and a higher usage_count, or those equal and an earlier
\* created_at.
C13_MatcherThreshold ==
    \A n \in 1..Len(selections) :
        LET s == selections[n] IN
        /\ s = selections[1]
        /\ s = None <=> Eligible = {}
        /\ s # None =>
              LET t == Unwrap(s) IN
              /\ \E j \in Eligible : candidates[j] = t
              /\ Similarity(intent, t) >= MIN_SCORE
              /\ \A k \in Eligible :
                    LET u == candidates[k] IN
                    /\ Similarity(intent, u) <= Similarity(intent, t)
                    /\ Similarity(intent, u) = Similarity(intent, t) =>
                          /\ u.usage_count <= t.usage_count
                          /\ u.usage_count = t.usage_count =>
                                u.created_at >= t.created_at

\* two calls returned report_b, which ties with report_c on score and
\* usage_count and is older, from a list that also holds a higher usage_count
\* below the threshold
C13_Witness ==
    /\ Len(selections) = MaxMatches
    /\ selections[1] # None
    /\ Unwrap(selections[1]).template_id = "report_b"
    /\ \E j, k \in 1..Len(candidates) :
          /\ candidates[j].template_id = "report_c"
          /\ j < k
          /\ candidates[k].template_id = "report_b"
    /\ \E j \in 1..Len(candidates) : Similarity(intent, candidates[j]) < MIN_SCORE

Returned == Unwrap(result.compiled_prompt)
AllCallsFailed ==
    /\ modelCalls # << >>
    /\ \A k \in 1..Len(modelCalls) : modelCalls[k] \in FailureKinds

\* C3: a request with a non-empty input never fails, whatever stages fail:
\* it runs on to completed and returns a CompiledPrompt, with the stages
\* that succeeded and with persisted = FALSE when saving failed; a request
\* ends without a CompiledPrompt only on an InputError.
C3_AlwaysReturnsPrompt ==
    /\ stage = "failed" =>
          /\ run.request.user_input = ""
          /\ result.error = "InputError"
          /\ result.compiled_prompt = None
    /\ stage \notin {"idle", "completed", "failed"} => ENABLED PipeNext
    /\ stage = "completed" =>
          /\ run.request.user_input # ""
          /\ Truthy(result.compiled_prompt)
          /\ hasCompiledPrompt(Some(result))
          /\ SelfCheck(Returned.full_prompt)
          /\ result.persisted = run.persisted
          /\ "record" \in result.succeeded <=> run.persisted
          /\ "match" \in result.succeeded <=> Truthy(run.template)
          /\ "evaluate" \in result.succeeded <=> Truthy(result.metrics)
          /\ "optimize" \in result.succeeded <=> Returned.optimized
          /\ {"extract", "assemble"} \subseteq result.succeeded

\* a request completed although no template matched, a model call timed
\* out, the evaluation failed and the version could not be saved
C3_Witness ==
    /\ stage = "completed"
    /\ run.template = None
    /\ \E k \in 1..Len(modelCalls) : modelCalls[k] = "timeout"
    /\ run.request.auto_evaluate /\ result.metrics = None
    /\ ~result.persisted
    /\ Truthy(result.compiled_prompt)

\* C4: when every call to the model service fails during a medium or high
\* optimization, the request completes with optimized = FALSE, the draft
\* render as full_prompt and the warning set; no request fails after a call
\* to the model service.
C4_ModelFailureDegrades ==
    /\ (/\ stage = "completed"
        /\ run.request.optimization_level \in {MEDIUM, HIGH}
        /\ AllCallsFailed) =>
          /\ hasCompiledPrompt(Some(result))
          /\ ~Returned.optimized
          /\ Returned.full_prompt = DraftRender
          /\ result.warning
    /\ modelCalls # << >> => stage # "failed"
    /\ (stage \in {"optimizing", "self_checking"}) => ENABLED PipeNext

C4_Witness ==
    /\ stage = "completed"
    /\ run.request.optimization_level = HIGH
    /\ Len(modelCalls) = 2
    /\ AllCallsFailed
    /\ result.warning

\* C5: a pass asks the model service for at most two candidates, the second
\* one only after the first failed its self-check; a pass that ends Accepted
\* or Retried leaves a candidate that passed the self-check, a pass that
\* ends Reverted leaves its input; no pass leaves a candidate that failed.
C5_PassOutcome ==
    [][/\ Len(modelCalls') <= 2 * run'.pass
       /\ \A k \in 1..Len(passes') :
             LET o == passes'[k] IN
             /\ o.calls \in 1..2
             /\ o.tag \in {"Accepted", "Retried", "Reverted"}
             /\ o.tag = "Accepted" => o.calls = 1 /\ SelfCheck(o.output)
             /\ o.tag = "Retried" => o.calls = 2 /\ SelfCheck(o.output)
             /\ o.tag = "Reverted" => o.output = o.input
             /\ o.output # o.input => o.output \in Rewrites /\ SelfCheck(o.output)
       /\ (run'.attempt = 2 /\ run.attempt = 1) =>
             stage = "self_checking" /\ ~SelfCheck(run.candidate)
       /\ Len(passes') > Len(passes) => run'.prompt = passes'[Len(passes')].output
      ]_vars

\* at level high the first pass ended Retried and the second Reverted, each
\* after two calls
C5_Witness ==
    /\ Len(passes) = 2
    /\ passes[1].tag = "Retried"
    /\ passes[2].tag = "Reverted"
    /\ passes[2].calls = 2
    /\ Len(modelCalls) = 4

(***************************************************************************)
(* The scores of the pipeline's prompt texts.                              *)
(***************************************************************************)
\* structure_score: the fraction of the required sections present in a text
StructureScore(text) ==
    (10 * Cardinality(text.sections \cap RequiredSections))
        \div Cardinality(RequiredSections)

\* consistency, completeness and clarity of the texts: rewrite_b keeps every
\* section and reads more clearly than the draft, and reflects fewer of the
\* intent's constraints and keywords
ContentScores(text) ==
    CASE text.id = "draft" -> [consistency |-> 8, completeness |-> 8, clarity |-> 6]
      [] text.id = "rewrite_a" -> [consistency |-> 8, completeness |-> 8, clarity |-> 9]
      [] text.id = "rewrite_b" -> [consistency |-> 6, completeness |-> 5, clarity |-> 9]
      [] text.id = "rewrite_without_constraints" ->
            [consistency |-> 8, completeness |-> 0, clarity |-> 9]
      [] text.id = "rewrite_broken_placeholder" ->
            [consistency |-> 8, completeness |-> 8, clarity |-> 3]
      [] text.id = "rewrite_too_long" ->
            [consistency |-> 8, completeness |-> 8, clarity |-> 4]
      [] OTHER -> [consistency |-> 0, completeness |-> 0, clarity |-> 0]

\* the QualityMetrics of a text
TextMetrics(text) ==
    Metrics(weights, SubScores(StructureScore(text), ContentScores(text).consistency,
                               ContentScores(text).completeness,
                               ContentScores(text).clarity))

\* the metrics of the prompt before the Optimizer and of the returned one
metrics_before == TextMetrics(run.draft)
metrics_after == TextMetrics(Returned.full_prompt)

Recorded(t) == {r \in Requests : users[r].pc = "done" /\ users[r].template = t}

RECURSIVE SumOfScores(_)
SumOfScores(rs) ==
    IF rs = {} THEN 0
    ELSE LET r == CHOOSE x \in rs : TRUE IN users[r].score + SumOfScores(rs \ {r})

\* the scores recorded on t: those behind the stored average, and the new ones
ScoreCount(t) == StoredTemplates[t].usage_count + Cardinality(Recorded(t))
ScoreSum(t) ==
    StoredTemplates[t].avg_quality_score.num * StoredTemplates[t].usage_count
        + SumOfScores(Recorded(t))

\* C10: after k requests recorded one usage of a template each, in any
\* interleaving, its usage_count is k higher than before and its
\* avg_quality_score is the mean of all the recorded scores; usage_count
\* never decreases.
C10_NoLostUpdate ==
    [][\A t \in TemplateIds :
          /\ templates'[t].usage_count >= templates[t].usage_count
          /\ templates'[t].usage_count =
                StoredTemplates[t].usage_count + Cardinality(Recorded(t)')
          /\ templates'[t].avg_quality_score.num * ScoreCount(t)' =
                ScoreSum(t)' * templates'[t].avg_quality_score.den
          /\ templates'[t].avg_quality_score.den > 0]_vars

\* every request used t1 and recorded its usage, two of them having read the
\* same counters before either wrote
C10_Witness ==
    /\ \A r \in Requests : users[r].pc = "done" /\ users[r].template = "t1"
    /\ \E r1, r2 \in Requests :
          /\ r1 # r2
          /\ users[r1].seen = users[r2].seen
          /\ users[r1].score # users[r2].score
    /\ templates["t1"].usage_count = MaxRequests

====
